---- MODULE Spec2Model ----
(***************************************************************************)
(* utility::SmartPointer<Ty, DTy> (include/utility/smart_pointer.h).       *)
(*                                                                         *)
(* Owners are storage slots that hold one SmartPointer each (or none).     *)
(* Every public operation of the class is an operation of the model; the   *)
(* ones whose body has more than one effect (the move constructors, the    *)
(* assignment operators, assign) are split at the statements of the body,  *)
(* and the frame of the call in progress is in `call`.  The program is     *)
(* single threaded: a new operation begins only when the previous one has  *)
(* returned.  Under Spec the frame of a returned call is popped (Return)   *)
(* before the next operation begins; under SpecScenario it is kept until   *)
(* the next operation begins, so that a property can relate one operation  *)
(* to the one that follows it.                                             *)
(*                                                                         *)
(* The value type Ty is not part of the state: a slot can hold a           *)
(* SmartPointer of any Ty.  The deleter type DTy is: it is read off the    *)
(* deleter value (deleter_type), and the members that name                 *)
(* SmartPointer<value_type> or need two Owners of one type are guarded by  *)
(* it.  Moving a deleter leaves the same value in the destination.  The    *)
(* rvalue overloads of swap (lines 214, 230) pass an rvalue to std::swap   *)
(* and cannot be instantiated; they have no action.  operator* on an empty *)
(* Owner is undefined and no property is about it; it has no action.       *)
(***************************************************************************)
EXTENDS Integers, FiniteSets, TLC

\* ---------------------------------------------------------------- bounds
NumOwners == 2
NumHandles == 2
MaxDestroy == 2

Owners == 1 .. NumOwners
Handles == 1 .. NumHandles

\* nullptr, the initial value of m_pointer
Null == 0

HandlesOrNull == Handles \cup {Null}

\* The values a deleter_type object can have.  DefaultDelete is the one value
\* of std::default_delete<Ty>; the other two are two distinguishable values of
\* one user-supplied deleter type.
DefaultDelete == "default_delete"
Policies == {DefaultDelete, "d1", "d2"}

\* The deleter type DTy an Owner was instantiated with, read off its deleter.
deleter_type(d) == IF d = DefaultDelete THEN "std" ELSE "user"

\* The value of a default-constructed m_deleter, per deleter type.
DefaultConstructed == {DefaultDelete, "d1"}

VARIABLES
    owners,     \* owners[i]: [live, m_pointer, m_deleter] of slot i
    destroyed,  \* destroyed[h]: how many times a policy was invoked on handle h
    outside,    \* handles the caller got back (release, swap) and still has
    call,       \* frame of the operation in progress or just returned
    pre         \* owners and destroyed as they were when that operation began

vars == <<owners, destroyed, outside, call, pre>>

\* A slot without an object.
NoOwner == [live |-> FALSE, m_pointer |-> Null, m_deleter |-> DefaultDelete]

\* The frame of a call: the operation, the statement it is at, this and right
\* (slots), the handle argument, the local old of assign, the value returned
\* (ret a handle, flag a bool, del a deleter), whether it threw, and the policy
\* it invoked ("none" when it invoked none).
Frame(name, pc, self, right, ptr) ==
    [op |-> name, pc |-> pc, self |-> self, right |-> right, ptr |-> ptr,
     old |-> Null, ret |-> Null, flag |-> FALSE, del |-> "none",
     thrown |-> FALSE, by |-> "none"]

NoCall == Frame("none", "idle", 0, 0, Null)

Init ==
    /\ owners = [i \in Owners |-> NoOwner]
    /\ destroyed = [h \in HandlesOrNull |-> 0]
    /\ outside = {}
    /\ call = NoCall
    /\ pre = [owners |-> [i \in Owners |-> NoOwner],
              destroyed |-> [h \in HandlesOrNull |-> 0]]

\* ------------------------------------------------------------- observers
get(o) == o.m_pointer

deleter(o) == o.m_deleter

empty(o) == o.m_pointer = Null

operator_bool(o) == o.m_pointer # Null

\* ------------------------------------------------------------ the caller
Held(h) == \E i \in Owners : owners[i].live /\ owners[i].m_pointer = h

\* A raw handle the caller may pass in: a resource no live Owner holds and
\* that has not been destroyed.
Fresh(h) == h \in Handles /\ ~Held(h) /\ destroyed[h] = 0

FreshArgs == {h \in Handles : Fresh(h)} \cup {Null}

\* What operator new can return: a resource nobody has yet.
Unallocated(h) == Fresh(h) /\ h \notin outside

\* No call is in progress and the frame of the last one has been popped.
Idle == call.pc = "idle"

\* An operation can begin: the previous one, if any, has returned.
Ready == call.pc \in {"idle", "return"}

Enter(name, pc, self, right, ptr) ==
    /\ call' = Frame(name, pc, self, right, ptr)
    /\ pre' = [owners |-> owners, destroyed |-> destroyed]

\* m_deleter(p): one invocation of the policy d on the handle p.
Invoke(d, p) == [destroyed EXCEPT ![p] = @ + 1]

\* The cap on the invocations recorded per handle.
CanDestroy(p) == IF p = Null THEN TRUE ELSE destroyed[p] < MaxDestroy

\* ---------------------------------------------------------- constructors
\* constexpr SmartPointer() = default;
DefaultConstruct(i, d) ==
    /\ Ready /\ ~owners[i].live
    /\ owners' = [owners EXCEPT ![i] =
                    [live |-> TRUE, m_pointer |-> Null, m_deleter |-> d]]
    /\ Enter("SmartPointer()", "return", i, 0, Null)
    /\ UNCHANGED <<destroyed, outside>>

\* SmartPointer(pointer_type pointer) : m_pointer(pointer)
Construct(i, h, d) ==
    /\ Ready /\ ~owners[i].live
    /\ owners' = [owners EXCEPT ![i] =
                    [live |-> TRUE, m_pointer |-> h, m_deleter |-> d]]
    /\ outside' = outside \ {h}
    /\ Enter("SmartPointer(pointer)", "return", i, 0, h)
    /\ UNCHANGED destroyed

\* SmartPointer(pointer_type pointer, deleter) : m_pointer(pointer), m_deleter(deleter)
ConstructWithDeleter(i, h, d) ==
    /\ Ready /\ ~owners[i].live
    /\ owners' = [owners EXCEPT ![i] =
                    [live |-> TRUE, m_pointer |-> h, m_deleter |-> d]]
    /\ outside' = outside \ {h}
    /\ Enter("SmartPointer(pointer,deleter)", "return", i, 0, h)
    /\ UNCHANGED destroyed

\* Mutant of Destructor: m_deleter(m_pointer) without the null test.
Destructor_unchecked(i) ==
    /\ Ready /\ owners[i].live
    /\ CanDestroy(owners[i].m_pointer)
    /\ destroyed' = Invoke(owners[i].m_deleter, owners[i].m_pointer)
    /\ owners' = [owners EXCEPT ![i] = NoOwner]
    /\ call' = [Frame("~SmartPointer", "return", i, 0, Null) EXCEPT
                  !.by = owners[i].m_deleter]
    /\ pre' = [owners |-> owners, destroyed |-> destroyed]
    /\ UNCHANGED outside

\* ~SmartPointer() noexcept { if (m_pointer) m_deleter(m_pointer); }
Destructor(i) ==
    /\ Ready /\ owners[i].live
    /\ CanDestroy(owners[i].m_pointer)
    /\ destroyed' = IF owners[i].m_pointer # Null
                      THEN Invoke(owners[i].m_deleter, owners[i].m_pointer)
                      ELSE destroyed
    /\ owners' = [owners EXCEPT ![i] = NoOwner]
    /\ call' = [Frame("~SmartPointer", "return", i, 0, Null) EXCEPT
                  !.by = IF owners[i].m_pointer # Null
                           THEN owners[i].m_deleter ELSE "none"]
    /\ pre' = [owners |-> owners, destroyed |-> destroyed]
    /\ UNCHANGED outside

\* ------------------------------------------------------ move construction
\* Mutant of MoveConstruct: m_pointer(right.get()), right keeps its handle.
MoveConstruct_copy(i, j) ==
    /\ Ready /\ ~owners[i].live /\ owners[j].live
    /\ Enter("SmartPointer(SmartPointer&&)", "init", i, j, owners[j].m_pointer)
    /\ UNCHANGED <<owners, destroyed, outside>>

\* SmartPointer(SmartPointer&& right)
\*   : m_pointer(std::move(right.release())), m_deleter(std::move(right.deleter()))
\* First statement: right.release() inside the member initializer.
MoveConstruct(i, j) ==
    /\ Ready /\ ~owners[i].live /\ owners[j].live
    /\ Enter("SmartPointer(SmartPointer&&)", "init", i, j, owners[j].m_pointer)
    /\ owners' = [owners EXCEPT ![j].m_pointer = Null]
    /\ UNCHANGED <<destroyed, outside>>

\* template <class P, class D> SmartPointer(SmartPointer<P, D>&& right): same body
ConvertingMoveConstruct(i, j) ==
    /\ Ready /\ ~owners[i].live /\ owners[j].live
    /\ Enter("SmartPointer(SmartPointer<P,D>&&)", "init", i, j, owners[j].m_pointer)
    /\ owners' = [owners EXCEPT ![j].m_pointer = Null]
    /\ UNCHANGED <<destroyed, outside>>

\* Mutant of MoveConstruct_init: m_deleter is left default-constructed.
MoveConstruct_init_default ==
    /\ call.pc = "init"
    /\ owners' = [owners EXCEPT ![call.self] =
                    [live |-> TRUE, m_pointer |-> call.ptr,
                     m_deleter |-> DefaultDelete]]
    /\ call' = [call EXCEPT !.pc = "return"]
    /\ UNCHANGED <<destroyed, outside, pre>>

\* The members are initialized from the released handle and right's deleter.
MoveConstruct_init ==
    /\ call.pc = "init"
    /\ owners' = [owners EXCEPT ![call.self] =
                    [live |-> TRUE, m_pointer |-> call.ptr,
                     m_deleter |-> deleter(owners[call.right])]]
    /\ call' = [call EXCEPT !.pc = "return"]
    /\ UNCHANGED <<destroyed, outside, pre>>

\* --------------------------------------------------------------- factory
\* return SmartPointer<value_type>(new value_type(args...));
create(k) ==
    /\ Ready /\ ~owners[k].live
    /\ \E h \in Handles :
         /\ Unallocated(h)
         /\ owners' = [owners EXCEPT ![k] =
                         [live |-> TRUE, m_pointer |-> h, m_deleter |-> DefaultDelete]]
         /\ Enter("create", "return", k, 0, h)
    /\ UNCHANGED <<destroyed, outside>>

\* Mutant of create_bad_alloc: the failure is swallowed and an empty
\* SmartPointer is returned.
create_bad_alloc_empty(k) ==
    /\ Ready /\ ~owners[k].live
    /\ owners' = [owners EXCEPT ![k] =
                    [live |-> TRUE, m_pointer |-> Null, m_deleter |-> DefaultDelete]]
    /\ call' = [Frame("create", "return", k, 0, Null) EXCEPT !.thrown = TRUE]
    /\ pre' = [owners |-> owners, destroyed |-> destroyed]
    /\ UNCHANGED <<destroyed, outside>>

\* operator new throws std::bad_alloc: no SmartPointer is constructed.
create_bad_alloc(k) ==
    /\ Ready /\ ~owners[k].live
    /\ call' = [Frame("create", "return", k, 0, Null) EXCEPT !.thrown = TRUE]
    /\ pre' = [owners |-> owners, destroyed |-> destroyed]
    /\ UNCHANGED <<owners, destroyed, outside>>

\* ------------------------------------------------- type-changing conversion
\* template <class P> operator SmartPointer<P>() const noexcept
\*   { return SmartPointer<P>(m_pointer); }
ConversionOperator(i, k) ==
    /\ Ready /\ owners[i].live /\ ~owners[k].live
    /\ owners' = [owners EXCEPT ![k] =
                    [live |-> TRUE, m_pointer |-> owners[i].m_pointer,
                     m_deleter |-> DefaultDelete]]
    /\ Enter("operator SmartPointer<P>", "return", i, k, Null)
    /\ UNCHANGED <<destroyed, outside>>

\* -------------------------------------------------------------- observers
\* constexpr pointer_type operator->() const noexcept { return m_pointer; }
call_operator_arrow(i) ==
    /\ Ready /\ owners[i].live
    /\ call' = [Frame("operator->", "return", i, 0, Null) EXCEPT
                  !.ret = owners[i].m_pointer]
    /\ pre' = [owners |-> owners, destroyed |-> destroyed]
    /\ UNCHANGED <<owners, destroyed, outside>>

\* Mutant of call_get: return std::exchange(m_pointer, nullptr), the body of
\* release.
call_get_release(i) ==
    /\ Ready /\ owners[i].live
    /\ call' = [Frame("get", "return", i, 0, Null) EXCEPT !.ret = get(owners[i])]
    /\ owners' = [owners EXCEPT ![i].m_pointer = Null]
    /\ pre' = [owners |-> owners, destroyed |-> destroyed]
    /\ UNCHANGED <<destroyed, outside>>

\* constexpr pointer_type get() const noexcept { return m_pointer; }
call_get(i) ==
    /\ Ready /\ owners[i].live
    /\ call' = [Frame("get", "return", i, 0, Null) EXCEPT !.ret = get(owners[i])]
    /\ pre' = [owners |-> owners, destroyed |-> destroyed]
    /\ UNCHANGED <<owners, destroyed, outside>>

\* constexpr deleter_type& deleter() noexcept { return m_deleter; }
call_deleter(i) ==
    /\ Ready /\ owners[i].live
    /\ call' = [Frame("deleter", "return", i, 0, Null) EXCEPT
                  !.del = deleter(owners[i])]
    /\ pre' = [owners |-> owners, destroyed |-> destroyed]
    /\ UNCHANGED <<owners, destroyed, outside>>

\* constexpr const bool empty() const noexcept { return m_pointer == nullptr; }
call_empty(i) ==
    /\ Ready /\ owners[i].live
    /\ call' = [Frame("empty", "return", i, 0, Null) EXCEPT
                  !.flag = empty(owners[i])]
    /\ pre' = [owners |-> owners, destroyed |-> destroyed]
    /\ UNCHANGED <<owners, destroyed, outside>>

\* Mutant of call_operator_bool: return true for every Owner.
call_operator_bool_true(i) ==
    /\ Ready /\ owners[i].live
    /\ call' = [Frame("operator bool", "return", i, 0, Null) EXCEPT !.flag = TRUE]
    /\ pre' = [owners |-> owners, destroyed |-> destroyed]
    /\ UNCHANGED <<owners, destroyed, outside>>

\* constexpr operator bool() const noexcept { return m_pointer != nullptr; }
call_operator_bool(i) ==
    /\ Ready /\ owners[i].live
    /\ call' = [Frame("operator bool", "return", i, 0, Null) EXCEPT
                  !.flag = operator_bool(owners[i])]
    /\ pre' = [owners |-> owners, destroyed |-> destroyed]
    /\ UNCHANGED <<owners, destroyed, outside>>

\* constexpr operator pointer_type () const noexcept { return m_pointer; }
call_operator_pointer(i) ==
    /\ Ready /\ owners[i].live
    /\ call' = [Frame("operator pointer_type", "return", i, 0, Null) EXCEPT
                  !.ret = owners[i].m_pointer]
    /\ pre' = [owners |-> owners, destroyed |-> destroyed]
    /\ UNCHANGED <<owners, destroyed, outside>>

\* ---------------------------------------------------------------- release
\* Mutant of release: the handle is passed to the policy, as a reset would.
release_reset(i) ==
    /\ Ready /\ owners[i].live
    /\ CanDestroy(owners[i].m_pointer)
    /\ owners' = [owners EXCEPT ![i].m_pointer = Null]
    /\ pre' = [owners |-> owners, destroyed |-> destroyed]
    /\ call' = [Frame("release", "return", i, 0, Null) EXCEPT
                  !.ret = owners[i].m_pointer]
    /\ outside' = outside \cup ({owners[i].m_pointer} \ {Null})
    /\ destroyed' = IF owners[i].m_pointer # Null
                      THEN Invoke(owners[i].m_deleter, owners[i].m_pointer)
                      ELSE destroyed

\* return std::exchange(m_pointer, nullptr);
release(i) ==
    /\ Ready /\ owners[i].live
    /\ owners' = [owners EXCEPT ![i].m_pointer = Null]
    /\ pre' = [owners |-> owners, destroyed |-> destroyed]
    /\ call' = [Frame("release", "return", i, 0, Null) EXCEPT
                  !.ret = owners[i].m_pointer]
    /\ outside' = outside \cup ({owners[i].m_pointer} \ {Null})
    /\ UNCHANGED destroyed

\* ------------------------------------------------------------------- swap
\* Mutant of swap: m_pointer = second.m_pointer, second keeps its handle.
swap_copy(i, j) ==
    /\ Ready /\ owners[i].live /\ owners[j].live
    /\ deleter_type(owners[j].m_deleter) = "std"
    /\ owners' = [owners EXCEPT ![i].m_pointer = owners[j].m_pointer]
    /\ Enter("swap(SmartPointer&)", "return", i, j, Null)
    /\ UNCHANGED <<destroyed, outside>>

\* Mutant of swap: std::swap(m_deleter, second.m_deleter) as well.
swap_deleters(i, j) ==
    /\ Ready /\ owners[i].live /\ owners[j].live
    /\ deleter_type(owners[j].m_deleter) = "std"
    /\ owners' = [owners EXCEPT ![i] = owners[j], ![j] = owners[i]]
    /\ Enter("swap(SmartPointer&)", "return", i, j, Null)
    /\ UNCHANGED <<destroyed, outside>>

\* void swap(SmartPointer<value_type>& second): std::swap(m_pointer, second.m_pointer)
\* second is a SmartPointer with the default deleter type.
swap(i, j) ==
    /\ Ready /\ owners[i].live /\ owners[j].live
    /\ deleter_type(owners[j].m_deleter) = "std"
    /\ owners' = [owners EXCEPT ![i].m_pointer = owners[j].m_pointer,
                                ![j].m_pointer = owners[i].m_pointer]
    /\ Enter("swap(SmartPointer&)", "return", i, j, Null)
    /\ UNCHANGED <<destroyed, outside>>

\* void swap(pointer_type& second): std::swap(m_pointer, second)
\* call.ret is the value of the caller's variable after the call.
swap_pointer(i, h) ==
    /\ Ready /\ owners[i].live
    /\ owners' = [owners EXCEPT ![i].m_pointer = h]
    /\ call' = [Frame("swap(pointer&)", "return", i, 0, h) EXCEPT
                  !.ret = owners[i].m_pointer]
    /\ pre' = [owners |-> owners, destroyed |-> destroyed]
    /\ outside' = (outside \ {h}) \cup ({owners[i].m_pointer} \ {Null})
    /\ UNCHANGED destroyed

\* ----------------------------------------------------------------- assign
\* pointer_type old = std::exchange(m_pointer, ptr);
exchange(i, ptr) ==
    /\ owners' = [owners EXCEPT ![i].m_pointer = ptr]
    /\ call' = [call EXCEPT !.old = owners[i].m_pointer, !.pc = "assign_delete"]

\* void assign(pointer_type ptr) noexcept, first statement
assign(i, h) ==
    /\ Ready /\ owners[i].live
    /\ CanDestroy(owners[i].m_pointer)
    /\ owners' = [owners EXCEPT ![i].m_pointer = h]
    /\ call' = [Frame("assign", "assign_delete", i, 0, h) EXCEPT
                  !.old = owners[i].m_pointer]
    /\ pre' = [owners |-> owners, destroyed |-> destroyed]
    /\ outside' = outside \ {h}
    /\ UNCHANGED destroyed

\* operator=(pointer_type right) { assign(right); return *this; }
operator_assign_pointer(i, h) ==
    /\ Ready /\ owners[i].live
    /\ CanDestroy(owners[i].m_pointer)
    /\ owners' = [owners EXCEPT ![i].m_pointer = h]
    /\ call' = [Frame("operator=(pointer)", "assign_delete", i, 0, h) EXCEPT
                  !.old = owners[i].m_pointer]
    /\ pre' = [owners |-> owners, destroyed |-> destroyed]
    /\ outside' = outside \ {h}
    /\ UNCHANGED destroyed

\* Mutant of operator_assign_move: m_deleter is assigned before assign runs.
operator_assign_move_deleter_first(i, j) ==
    /\ Ready /\ owners[i].live /\ owners[j].live
    /\ deleter_type(owners[i].m_deleter) = deleter_type(owners[j].m_deleter)
    /\ CanDestroy(owners[i].m_pointer)
    /\ Enter("operator=(SmartPointer&&)", "assign_exchange", i, j, owners[j].m_pointer)
    /\ owners' = [owners EXCEPT ![j].m_pointer = Null,
                                ![i].m_deleter = owners[j].m_deleter]
    /\ UNCHANGED <<destroyed, outside>>

\* Mutant of operator_assign_move: assign(right.get()), right is not released.
operator_assign_move_get(i, j) ==
    /\ Ready /\ owners[i].live /\ owners[j].live
    /\ deleter_type(owners[i].m_deleter) = deleter_type(owners[j].m_deleter)
    /\ CanDestroy(owners[i].m_pointer)
    /\ Enter("operator=(SmartPointer&&)", "assign_exchange", i, j, owners[j].m_pointer)
    /\ UNCHANGED <<owners, destroyed, outside>>

\* operator=(SmartPointer&& right), first statement: right.release()
operator_assign_move(i, j) ==
    /\ Ready /\ owners[i].live /\ owners[j].live
    /\ deleter_type(owners[i].m_deleter) = deleter_type(owners[j].m_deleter)
    /\ CanDestroy(owners[i].m_pointer)
    /\ Enter("operator=(SmartPointer&&)", "assign_exchange", i, j, owners[j].m_pointer)
    /\ owners' = [owners EXCEPT ![j].m_pointer = Null]
    /\ UNCHANGED <<destroyed, outside>>

\* operator=(SmartPointer& right): the same body on an lvalue
operator_assign_lvalue(i, j) ==
    /\ Ready /\ owners[i].live /\ owners[j].live
    /\ deleter_type(owners[i].m_deleter) = deleter_type(owners[j].m_deleter)
    /\ CanDestroy(owners[i].m_pointer)
    /\ Enter("operator=(SmartPointer&)", "assign_exchange", i, j, owners[j].m_pointer)
    /\ owners' = [owners EXCEPT ![j].m_pointer = Null]
    /\ UNCHANGED <<destroyed, outside>>

\* assign(right.release()): the exchange, with the released handle
assign_exchange ==
    /\ call.pc = "assign_exchange"
    /\ exchange(call.self, call.ptr)
    /\ UNCHANGED <<destroyed, outside, pre>>

\* Mutant of assign_delete: old is dropped without a call of the policy.
assign_delete_never ==
    /\ call.pc = "assign_delete"
    /\ call' = [call EXCEPT
                  !.pc = IF call.right # 0 THEN "assign_deleter" ELSE "return"]
    /\ UNCHANGED <<owners, destroyed, outside, pre>>

\* Mutant of assign_delete: m_deleter(m_pointer), the policy is called on the
\* handle just adopted instead of old.
assign_delete_adopted ==
    /\ call.pc = "assign_delete"
    /\ destroyed' = IF call.old # Null
                      THEN Invoke(owners[call.self].m_deleter,
                                  owners[call.self].m_pointer)
                      ELSE destroyed
    /\ call' = [call EXCEPT
                  !.pc = IF call.right # 0 THEN "assign_deleter" ELSE "return",
                  !.by = IF call.old # Null THEN owners[call.self].m_deleter
                                            ELSE "none"]
    /\ UNCHANGED <<owners, outside, pre>>

\* if (old) m_deleter(old);
assign_delete ==
    /\ call.pc = "assign_delete"
    /\ destroyed' = IF call.old # Null
                      THEN Invoke(owners[call.self].m_deleter, call.old)
                      ELSE destroyed
    /\ call' = [call EXCEPT
                  !.pc = IF call.right # 0 THEN "assign_deleter" ELSE "return",
                  !.by = IF call.old # Null THEN owners[call.self].m_deleter
                                            ELSE "none"]
    /\ UNCHANGED <<owners, outside, pre>>

\* m_deleter = std::forward<deleter_type>(right.m_deleter);
assign_deleter ==
    /\ call.pc = "assign_deleter"
    /\ owners' = [owners EXCEPT ![call.self].m_deleter =
                                    deleter(owners[call.right])]
    /\ call' = [call EXCEPT !.pc = "return"]
    /\ UNCHANGED <<destroyed, outside, pre>>

\* The call returns and its frame is popped.  A handle that was destroyed and
\* that no Owner holds is a free address again: it is no longer told apart
\* from one that was never handed out.
Return ==
    /\ call.pc = "return"
    /\ call' = NoCall
    /\ destroyed' = [h \in HandlesOrNull |->
                        IF h # Null /\ ~Held(h) THEN 0 ELSE destroyed[h]]
    /\ outside' = {h \in outside : destroyed[h] = 0}
    /\ pre' = [owners |-> owners, destroyed |-> destroyed']
    /\ UNCHANGED owners

\* A public operation begins when no call is in progress; the statements after
\* the first one of an operation follow it; a finished call returns.
Next ==
    \/ Idle /\ \E i \in Owners, d \in DefaultConstructed : DefaultConstruct(i, d)
    \/ Idle /\ \E i \in Owners, h \in FreshArgs, d \in DefaultConstructed : Construct(i, h, d)
    \/ Idle /\ \E i \in Owners, h \in FreshArgs, d \in Policies : ConstructWithDeleter(i, h, d)
    \/ Idle /\ \E i, j \in Owners : MoveConstruct(i, j)
    \/ Idle /\ \E i, j \in Owners : ConvertingMoveConstruct(i, j)
    \/ Idle /\ \E i \in Owners : Destructor(i)
    \/ Idle /\ \E k \in Owners : create(k)
    \/ Idle /\ \E k \in Owners : create_bad_alloc(k)
    \/ Idle /\ \E i, k \in Owners : ConversionOperator(i, k)
    \/ Idle /\ \E i \in Owners : release(i)
    \/ Idle /\ \E i, j \in Owners : swap(i, j)
    \/ Idle /\ \E i \in Owners, h \in FreshArgs : swap_pointer(i, h)
    \/ Idle /\ \E i \in Owners, h \in FreshArgs : assign(i, h)
    \/ Idle /\ \E i \in Owners, h \in FreshArgs : operator_assign_pointer(i, h)
    \/ Idle /\ \E i, j \in Owners : operator_assign_move(i, j)
    \/ Idle /\ \E i, j \in Owners : operator_assign_lvalue(i, j)
    \/ MoveConstruct_init
    \/ assign_exchange
    \/ assign_delete
    \/ assign_deleter
    \/ Return

Spec == Init /\ [][Next]_vars

\* The observers, called on Owners in every state the other operations leave
\* them in: default-constructed, constructed from a handle, moved-from,
\* released, swapped, reassigned.
NextObserve ==
    \/ Idle /\ \E i \in Owners, d \in DefaultConstructed : DefaultConstruct(i, d)
    \/ Idle /\ \E i \in Owners, h \in FreshArgs, d \in DefaultConstructed : Construct(i, h, d)
    \/ Idle /\ \E i \in Owners, h \in FreshArgs, d \in Policies : ConstructWithDeleter(i, h, d)
    \/ Idle /\ \E i, j \in Owners : MoveConstruct(i, j)
    \/ MoveConstruct_init
    \/ Idle /\ \E i \in Owners : Destructor(i)
    \/ Idle /\ \E i \in Owners : release(i)
    \/ Idle /\ \E i, j \in Owners : swap(i, j)
    \/ Idle /\ \E i \in Owners, h \in FreshArgs : assign(i, h)
    \/ assign_delete
    \/ Idle /\ \E i \in Owners : call_operator_arrow(i)
    \/ Idle /\ \E i \in Owners : call_get(i)
    \/ Idle /\ \E i \in Owners : call_deleter(i)
    \/ Idle /\ \E i \in Owners : call_empty(i)
    \/ Idle /\ \E i \in Owners : call_operator_bool(i)
    \/ Idle /\ \E i \in Owners : call_operator_pointer(i)
    \/ Return

SpecObserve == Init /\ [][NextObserve]_vars

\* The operations of the move-construction scenario only:
\*   p = create(..); q = std::move(p); p.release(); destruction of p and q.
NextScenario ==
    \/ \E k \in Owners : create(k)
    \/ \E i, j \in Owners : MoveConstruct(i, j)
    \/ MoveConstruct_init
    \/ \E i \in Owners : release(i)
    \/ \E i \in Owners : Destructor(i)

SpecScenario == Init /\ [][NextScenario]_vars

\* Sequences of construction, assign, swap and destruction, one call directly
\* after the other (the frame of the last call is kept until the next one):
\*   a.assign(h1); a.assign(h2); a.swap(b); destruction of a and b.
NextSequence ==
    \/ \E i \in Owners, d \in DefaultConstructed : DefaultConstruct(i, d)
    \/ \E i \in Owners, h \in FreshArgs, d \in Policies : ConstructWithDeleter(i, h, d)
    \/ \E i \in Owners, h \in FreshArgs : assign(i, h)
    \/ assign_delete
    \/ \E i, j \in Owners : swap(i, j)
    \/ \E i \in Owners : Destructor(i)

SpecSequence == Init /\ [][NextSequence]_vars

\* The handles a caller can pass to assign on the Owner in slot i: a fresh one,
\* null, or the one it reads from the Owner itself, a.assign(a.get()).
FreshOrOwnArgs(i) == FreshArgs \cup {get(owners[i])}

\* Construction, assign and destruction where assign may be passed the handle
\* the Owner already holds.
NextReassign ==
    \/ Idle /\ \E i \in Owners, h \in FreshArgs, d \in DefaultConstructed : Construct(i, h, d)
    \/ Idle /\ \E i \in Owners : \E h \in FreshOrOwnArgs(i) : assign(i, h)
    \/ assign_delete
    \/ Idle /\ \E i \in Owners : Destructor(i)
    \/ Return

SpecReassign == Init /\ [][NextReassign]_vars

\* ------------------------------------------------------------ properties
\* The operation name has returned.
Returned(name) == call.op = name /\ call.pc = "return"

MoveConstructors == {"SmartPointer(SmartPointer&&)", "SmartPointer(SmartPointer<P,D>&&)"}

PointerConstructors == {"SmartPointer(pointer)", "SmartPointer(pointer,deleter)"}

Observers == {"operator->", "get", "deleter", "empty", "operator bool",
              "operator pointer_type"}

OwnerAssignments == {"operator=(SmartPointer&&)", "operator=(SmartPointer&)"}

\* C1: each non-null handle is held by at most one live Owner.
C1_UniqueOwnership ==
    \A i, j \in Owners :
        (i # j /\ owners[i].live /\ owners[j].live /\ ~empty(owners[i]))
            => get(owners[i]) # get(owners[j])

\* C2: the Deletion Policy is invoked at most once on any handle and never on
\* the null handle.
C2_NoDoubleDestruction ==
    /\ \A h \in Handles : destroyed[h] <= 1
    /\ destroyed[Null] = 0

\* C3: when the type-changing conversion has produced the new Owner, the
\* source is empty and the result holds the handle the source held.
C3_ConversionConsumesSource ==
    Returned("operator SmartPointer<P>") =>
        /\ empty(owners[call.self])
        /\ get(owners[call.right]) = get(pre.owners[call.self])

C5_Destruction ==
    Returned("~SmartPointer") =>
        LET h == get(pre.owners[call.self]) IN
        IF h # Null
          THEN /\ destroyed = [pre.destroyed EXCEPT ![h] = @ + 1]
               /\ call.by = deleter(pre.owners[call.self])
          ELSE /\ destroyed = pre.destroyed
               /\ call.by = "none"

C5_Witness ==
    /\ Returned("~SmartPointer")
    /\ ~empty(pre.owners[call.self])
    /\ deleter(pre.owners[call.self]) = "d2"

\* C6: after move construction of b from a (same-type or converting), a is
\* empty, b holds a's pre-move handle and a's policy, and no policy was invoked.
C6_MoveConstruction ==
    (call.op \in MoveConstructors /\ call.pc = "return") =>
        /\ empty(owners[call.right])
        /\ owners[call.self].live
        /\ get(owners[call.self]) = get(pre.owners[call.right])
        /\ deleter(owners[call.self]) = deleter(pre.owners[call.right])
        /\ destroyed = pre.destroyed

C6_Witness ==
    /\ Returned("SmartPointer(SmartPointer<P,D>&&)")
    /\ ~empty(pre.owners[call.right])
    /\ deleter(pre.owners[call.right]) = "d2"

\* C7: release returns the handle held before the call (null for an empty
\* Owner), leaves the Owner empty and invokes no policy; and whatever any
\* operation destroys is the handle its Owner held when that operation began,
\* so an Owner does not destroy a handle it has released.
C7_Release ==
    /\ [](Returned("release") =>
            /\ call.ret = get(pre.owners[call.self])
            /\ empty(owners[call.self])
            /\ owners[call.self].live
            /\ destroyed = pre.destroyed
            /\ (call.ret # Null => call.ret \in outside))
    /\ [][\A h \in HandlesOrNull :
            destroyed'[h] > destroyed[h] =>
                /\ h # Null
                /\ get(pre'.owners[call'.self]) = h]_vars

C7_Witness ==
    /\ Returned("release")
    /\ call.ret # Null
    /\ call.ret \in outside
    /\ destroyed[call.ret] = 0

\* C8: after a.swap(b), a holds b's pre-swap handle, b holds a's, and no
\* policy was invoked.
C8_Swap ==
    Returned("swap(SmartPointer&)") =>
        /\ get(owners[call.self]) = get(pre.owners[call.right])
        /\ get(owners[call.right]) = get(pre.owners[call.self])
        /\ destroyed = pre.destroyed

C8_Witness ==
    /\ Returned("swap(SmartPointer&)")
    /\ ~empty(pre.owners[call.self])
    /\ ~empty(pre.owners[call.right])
    /\ get(pre.owners[call.self]) # get(pre.owners[call.right])

\* C9: after dst = src (move or lvalue form, src distinct from dst) and after
\* dst = raw handle, the handle dst held (if non-null) was passed to the policy
\* exactly once, dst holds the assigned handle, and src is empty with its
\* former handle not destroyed.
C9_Assignment ==
    /\ (call.op \in OwnerAssignments /\ call.pc = "return"
                                     /\ call.self # call.right) =>
          LET hold == get(pre.owners[call.self])
              hsrc == get(pre.owners[call.right]) IN
          /\ get(owners[call.self]) = hsrc
          /\ empty(owners[call.right])
          /\ destroyed = IF hold # Null
                           THEN [pre.destroyed EXCEPT ![hold] = @ + 1]
                           ELSE pre.destroyed
          /\ destroyed[hsrc] = pre.destroyed[hsrc]
    /\ Returned("operator=(pointer)") =>
          LET hold == get(pre.owners[call.self]) IN
          /\ get(owners[call.self]) = call.ptr
          /\ destroyed = IF hold # Null
                           THEN [pre.destroyed EXCEPT ![hold] = @ + 1]
                           ELSE pre.destroyed

\* C10: in the scenario p = create(..); q = std::move(p) (and after
\* p.release()), the destructor of the moved-from or released p invokes no
\* policy; a handle is never destroyed while an Owner holds it, is destroyed
\* by the destructor of the Owner holding it, and at most once.
C10_MovedFromDestroysNothing ==
    /\ [](\A h \in Handles :
            /\ destroyed[h] <= 1
            /\ Held(h) => destroyed[h] = 0)
    /\ [](destroyed[Null] = 0)
    /\ []((call.op \in MoveConstructors /\ call.pc = "return")
            => /\ empty(owners[call.right])
               /\ get(owners[call.self]) = get(pre.owners[call.right]))
    /\ [][(call.pc = "return" /\ call.op \in MoveConstructors
                /\ call'.op = "~SmartPointer" /\ call'.self = call.right)
            => destroyed' = destroyed]_vars
    /\ [][(Returned("release") /\ call'.op = "~SmartPointer"
                               /\ call'.self = call.self)
            => destroyed' = destroyed]_vars
    /\ [][(call'.op = "~SmartPointer" /\ call' # call
                                      /\ ~empty(owners[call'.self]))
            => destroyed'[get(owners[call'.self])] = 1]_vars

C10_Witness ==
    /\ Returned("~SmartPointer")
    /\ ~empty(pre.owners[call.self])
    /\ destroyed[get(pre.owners[call.self])] = 1
    /\ \A i \in Owners : ~owners[i].live
    /\ outside = {}

\* C11: in a.assign(h1); a.assign(h2); destruction of a, with a empty at first
\* and h1, h2 fresh: the first assign calls no policy, the second calls it
\* once, on h1, and not on h2, the destructor once, on h2 -- twice in all
\* since the second assign began -- and no handle is passed to a policy while
\* an Owner holds it.
C11_DoubleAssign ==
    /\ [](Returned("assign") =>
            /\ get(owners[call.self]) = call.ptr
            /\ destroyed = IF empty(pre.owners[call.self])
                              THEN pre.destroyed
                              ELSE [pre.destroyed EXCEPT
                                      ![get(pre.owners[call.self])] = @ + 1]
            /\ destroyed[Null] = 0)
    /\ [](\A h \in Handles : Held(h) => destroyed[h] = 0)
    /\ [][(/\ Returned("assign")
            /\ ~empty(pre.owners[call.self]) /\ call.ptr # Null
            /\ call'.op = "~SmartPointer" /\ call'.self = call.self)
           => destroyed' = [pre.destroyed EXCEPT
                              ![get(pre.owners[call.self])] = @ + 1,
                              ![call.ptr] = @ + 1]]_vars

\* The destructor directly after a.assign(h2) that replaced a non-null h1:
\* both handles destroyed once, nothing else.
C11_Witness ==
    /\ Returned("~SmartPointer")
    /\ \E h1, h2 \in Handles :
         /\ h1 # h2
         /\ get(pre.owners[call.self]) = h2
         /\ pre.destroyed[h1] = 1 /\ pre.destroyed[h2] = 0
         /\ destroyed[h1] = 1 /\ destroyed[h2] = 1
    /\ \A i \in Owners : ~owners[i].live

\* C12: during move construction of b from a (same-type or converting), a is
\* made empty before b holds the handle: while b is being initialized a is
\* empty, b is not yet an Owner and the handle is the one a held; at no point
\* of the construction do a and b hold the same non-null handle.
C12_ReleaseBeforeAdopt ==
    call.op \in MoveConstructors =>
        /\ call.pc = "init" =>
              /\ empty(owners[call.right])
              /\ ~owners[call.self].live
              /\ call.ptr = get(pre.owners[call.right])
        /\ call.pc = "return" =>
              /\ empty(owners[call.right])
              /\ get(owners[call.self]) = get(pre.owners[call.right])
        /\ ~(/\ owners[call.self].live
              /\ ~empty(owners[call.self])
              /\ get(owners[call.self]) = get(owners[call.right]))

\* The point between the release of a non-null handle and the initialization.
C12_Witness ==
    /\ call.op \in MoveConstructors
    /\ call.pc = "init"
    /\ call.ptr # Null
    /\ ~empty(pre.owners[call.right])

\* C13: an Owner constructed from a handle h (null included) holds h, and its
\* construction calls no policy and touches no other Owner; get, empty, the
\* bool conversion, operator->, the conversion to the raw handle and deleter
\* return what the Owner has and leave every Owner's handle and policy and
\* the destroyed handles as they were.
C13_ConstructObserve ==
    /\ (call.op \in PointerConstructors /\ call.pc = "return") =>
          /\ owners[call.self].live
          /\ get(owners[call.self]) = call.ptr
          /\ destroyed = pre.destroyed
          /\ call.by = "none"
          /\ \A j \in Owners \ {call.self} : owners[j] = pre.owners[j]
    /\ (call.op \in Observers /\ call.pc = "return") =>
          /\ owners = pre.owners
          /\ destroyed = pre.destroyed
          /\ call.by = "none"
          /\ call.op \in {"operator->", "get", "operator pointer_type"} =>
                call.ret = owners[call.self].m_pointer
          /\ call.op = "deleter" => call.del = owners[call.self].m_deleter

\* get has returned the non-null handle of an Owner.
C13_Witness ==
    /\ Returned("get")
    /\ call.ret # Null
    /\ get(pre.owners[call.self]) = call.ret

\* C14: a call of create either throws, and then produces no Owner, leaves no
\* handle allocated and changes no existing Owner, or returns an Owner with
\* the default policy holding a non-null handle that was not allocated
\* before, every other Owner unchanged; it calls no policy either way.
C14_CreateOrThrow ==
    [][(call.pc = "idle" /\ call'.op = "create") =>
         /\ call'.pc = "return"
         /\ destroyed' = destroyed
         /\ outside' = outside
         /\ call'.by = "none"
         /\ IF call'.thrown
              THEN owners' = owners /\ ~owners'[call'.self].live
              ELSE /\ call'.ptr \in Handles
                   /\ ~Held(call'.ptr)
                   /\ destroyed[call'.ptr] = 0
                   /\ call'.ptr \notin outside
                   /\ owners' = [owners EXCEPT ![call'.self] =
                                   [live |-> TRUE, m_pointer |-> call'.ptr,
                                    m_deleter |-> DefaultDelete]]]_vars

\* create has thrown while another Owner holds a handle.
C14_Witness ==
    /\ Returned("create")
    /\ call.thrown
    /\ owners = pre.owners
    /\ \E i \in Owners : owners[i].live /\ ~empty(owners[i])

\* C15: whatever state an Owner has reached, empty() returns true exactly
\* when its handle is null, and the bool conversion returns the negation of
\* empty().
C15_EmptinessAgrees ==
    /\ Returned("empty") =>
          /\ call.flag = (owners[call.self].m_pointer = Null)
          /\ call.flag = ~operator_bool(owners[call.self])
    /\ Returned("operator bool") =>
          /\ call.flag = (owners[call.self].m_pointer # Null)
          /\ call.flag = ~empty(owners[call.self])
    /\ \A i \in Owners :
          owners[i].live => (operator_bool(owners[i]) = ~empty(owners[i]))

\* The bool conversion of an empty Owner has returned false while another
\* Owner holds a handle.
C15_Witness ==
    /\ Returned("operator bool")
    /\ ~call.flag
    /\ \E i \in Owners : owners[i].live /\ ~empty(owners[i])

\* C16: when a.assign(h) has returned, for h fresh, null or the handle a held
\* already, the handle a holds has not been passed to a policy.
C16_NoDanglingAfterAssign ==
    (Returned("assign") /\ ~empty(owners[call.self])) =>
        destroyed[get(owners[call.self])] = 0

\* C17: an assignment of an Owner to itself, by operator=(SmartPointer&&) or
\* operator=(SmartPointer&), calls no policy at any of its statements and
\* returns with the Owner holding the handle it held before, every other
\* Owner unchanged.
C17_SelfAssignment ==
    (call.op \in OwnerAssignments /\ call.self = call.right) =>
        /\ destroyed = pre.destroyed
        /\ call.by = "none"
        /\ call.pc = "return" =>
              /\ get(owners[call.self]) = get(pre.owners[call.self])
              /\ \A j \in Owners \ {call.self} : owners[j] = pre.owners[j]

\* A self-assignment of an Owner holding a non-null handle has returned.
C17_Witness ==
    /\ call.op \in OwnerAssignments
    /\ call.pc = "return"
    /\ call.self = call.right
    /\ ~empty(pre.owners[call.self])
    /\ get(owners[call.self]) = get(pre.owners[call.self])

C19_DestroyWithOldPolicy ==
    (/\ call.op = "operator=(SmartPointer&&)"
     /\ call.self # call.right
     /\ ~empty(pre.owners[call.self])) =>
        /\ call.pc \in {"assign_exchange", "assign_delete"} =>
              /\ deleter(owners[call.self]) = deleter(pre.owners[call.self])
              /\ destroyed = pre.destroyed
              /\ call.by = "none"
        /\ call.pc \in {"assign_deleter", "return"} =>
              /\ call.by = deleter(pre.owners[call.self])
              /\ destroyed = [pre.destroyed EXCEPT
                                ![get(pre.owners[call.self])] = @ + 1]
        /\ call.pc = "assign_deleter" =>
              deleter(owners[call.self]) = deleter(pre.owners[call.self])
        /\ call.pc = "return" =>
              deleter(owners[call.self]) = deleter(pre.owners[call.right])

\* dst held a non-null handle under policy d1, src had policy d2: the handle
\* went to d1 and dst has d2 now.
C19_Witness ==
    /\ Returned("operator=(SmartPointer&&)")
    /\ call.self # call.right
    /\ ~empty(pre.owners[call.self])
    /\ deleter(pre.owners[call.self]) = "d1"
    /\ deleter(pre.owners[call.right]) = "d2"
    /\ call.by = "d1"
    /\ deleter(owners[call.self]) = "d2"

\* The handle that is a local of the call in progress: released from right and
\* not yet adopted, or exchanged out of this and not yet destroyed.
InFlight ==
    IF call.pc \in {"init", "assign_exchange"} THEN {call.ptr}
    ELSE IF call.pc = "assign_delete" THEN {call.old}
    ELSE {}

\* The handles that an Owner, or the call in progress on an Owner, has.
Tracked ==
    ({owners[i].m_pointer : i \in {j \in Owners : owners[j].live}} \cup InFlight)
        \ {Null}

\* C20: no step of any operation drops a handle: whenever a handle that an
\* Owner (or the call in progress) had is with no Owner any more, that step
\* passed it to a policy or handed it back to the caller, as the result of
\* release or through the variable of swap with a raw handle.  So once every
\* Owner is destroyed, every handle ever held was destroyed or handed back.
\* (Only a step that changes an Owner or continues a call can drop a handle.)
C20_NoLeak ==
    [][(owners' # owners \/ call.pc \notin {"idle", "return"}) =>
         \A h \in Tracked \ Tracked' :
            \/ destroyed'[h] = destroyed[h] + 1
            \/ /\ call'.op \in {"release", "swap(pointer&)"}
               /\ call'.ret = h
               /\ h \in outside']_vars

\* Every Owner is destroyed, the last one passed its handle to its policy,
\* and another handle is with the caller.
C20_Witness ==
    /\ Returned("~SmartPointer")
    /\ \A i \in Owners : ~owners[i].live
    /\ ~empty(pre.owners[call.self])
    /\ destroyed[get(pre.owners[call.self])] = 1
    /\ \E h \in outside : h # get(pre.owners[call.self])
====
